---- MODULE Spec2Model ----
(***************************************************************************)
(* SupoClip backend: the arq job queue wrapper (workers/job_queue.py), the *)
(* database initialisation (database.py) and the FastAPI lifespan and      *)
(* health checks (main_refactored.py).                                     *)
(*                                                                         *)
(* The program runs on one asyncio event loop: a step of the model is the  *)
(* code a task runs between two awaits that really suspend (create_pool,   *)
(* asyncio.sleep inside tenacity, engine.begin, pool.close, pool.ping, the *)
(* broker round trips of a job lookup).                                    *)
(***************************************************************************)
EXTENDS Integers, FiniteSets, Sequences, TLC

(* ---------------------------------------------------------------------- *)
(* Bounds of the model                                                     *)
(* ---------------------------------------------------------------------- *)
NumReq == 2          \* concurrent request tasks served while the app runs
MaxCalls == 3        \* requests started in one run
MaxEnvChanges == 2   \* times a backend changes its behaviour in one run
MaxJobs == 2         \* job identifiers the broker assigns in one run

(* ---------------------------------------------------------------------- *)
(* Program constants                                                       *)
(* ---------------------------------------------------------------------- *)
MaxAttempts == 10    \* stop_after_attempt(10)
WaitMultiplier == 1  \* wait_exponential(multiplier=1, ...)
WaitMin == 2         \* wait_exponential(..., min=2, ...)
WaitMax == 30        \* wait_exponential(..., max=30)
DbWaitMultiplier == 1  \* init_db: wait_exponential(multiplier=1, ...)
DbWaitMin == 2         \* init_db: wait_exponential(..., min=2, ...)
DbWaitMax == 30        \* init_db: wait_exponential(..., max=30)

Lifespan == 0                 \* the task running lifespan()
Reqs == 1..NumReq             \* request handler tasks
Procs == {Lifespan} \cup Reqs

None == 0                     \* JobQueue._pool = None; handles are 1, 2, ...

JobIds == 1..MaxJobs          \* identifiers a request may ask about
\* What the broker holds for an identifier: "none" is no record (never
\* submitted, or expired).
JobStates == {"none", "queued", "in_progress", "complete", "failed"}

(* ---------------------------------------------------------------------- *)
(* Exceptions: the classes the code names, and what the backends raise     *)
(* ---------------------------------------------------------------------- *)
\* What create_pool(ARQ_REDIS_SETTINGS) does when it completes: "up" returns
\* a connected ArqRedis; any other mode raises the exception of that class.
BrokerErrors == {"ConnectionError", "TimeoutError", "OSError",
                 "AuthenticationError", "ValueError"}
BrokerModes == {"up"} \cup BrokerErrors

\* What engine.begin() / SELECT 1 / create_all does inside init_db.
DbErrors == {"OperationalError", "OSError", "InvalidPasswordError"}
DbModes == {"up"} \cup DbErrors

\* The classes an exception of class k is an instance of (its MRO below
\* Exception).  redis.exceptions.AuthenticationError derives from
\* redis.exceptions.ConnectionError; sqlalchemy's OperationalError derives
\* from DBAPIError; asyncpg's InvalidPasswordError reaches init_db unwrapped.
Superclasses(k) ==
    CASE k = "AuthenticationError" -> {"AuthenticationError", "ConnectionError"}
      [] k = "OperationalError"    -> {"OperationalError", "DBAPIError"}
      [] OTHER                     -> {k}

\* retry_if_exception_type(types): isinstance(exception, types)
retry_if_exception_type(types, k) == Superclasses(k) \cap types # {}

\* job_queue.py line 32
QueueRetryTypes == {"ConnectionError", "TimeoutError", "OSError"}
\* database.py line 69
DbRetryTypes == {"OperationalError", "DBAPIError", "OSError"}

queue_retry(k) == retry_if_exception_type(QueueRetryTypes, k)
db_retry(k) == retry_if_exception_type(DbRetryTypes, k)

stop_after_attempt(n) == n >= MaxAttempts

Pow2(n) == IF n <= 0 THEN 1 ELSE 2 ^ n
Min(a, b) == IF a < b THEN a ELSE b
Max(a, b) == IF a > b THEN a ELSE b

\* tenacity wait_exponential(multiplier=1, min=2, max=30), exp_base 2:
\* max(max(0, min), min(multiplier * 2 ** (attempt_number - 1), max))
WaitUnclamped(n) == WaitMultiplier * Pow2(n - 1)
wait_exponential(n) ==
    Max(Max(0, WaitMin), Min(WaitMultiplier * Pow2(n - 1), WaitMax))

\* The same policy as init_db's decorator builds it (database.py line 68).
db_wait_exponential(n) ==
    Max(Max(0, DbWaitMin), Min(DbWaitMultiplier * Pow2(n - 1), DbWaitMax))

\* The error a retried call raises once the attempt budget is used up:
\* reraise=True re-raises the last attempt's own exception.
reraise(k) == k

(* ---------------------------------------------------------------------- *)
(* State                                                                   *)
(* ---------------------------------------------------------------------- *)
VARIABLES
    broker,            \* behaviour of the Redis broker for connections
    dbm,               \* behaviour of the database
    envChanges,        \* number of backend behaviour changes so far
    pool,              \* JobQueue._pool: None or a handle
    created,           \* number of handles create_pool has returned so far
    open,              \* handles created and not closed
    closing,           \* handle whose close() close_pool is awaiting, or None
    pc,                \* per task: where its get_pool()-based call stands
    attempt,           \* per task: tenacity's attempt_number of the call
    tries,             \* per task: create_pool calls made by the call
    slept,             \* per task: seconds of backoff waited by the call
    res,               \* per task: handle get_pool returned, or None
    err,               \* per task: exception its call raised, or "none"
    cold,              \* per task: the call found _pool None on entry
    fails,             \* per task: create_pool calls of the call that raised
    solo,              \* per task: no other creation overlapped the call
    op,                \* per request task: the operation it runs
    out,               \* per request task: what the operation returned
    calls,             \* requests started so far
    lpc,               \* position of lifespan()
    db_initialized,    \* lifespan local
    queue_initialized, \* lifespan local
    dbAttempt,         \* attempt_number of init_db's retry
    dbTries,           \* engine.begin() attempts made by init_db
    dbSlept,           \* seconds of backoff waited by init_db
    dbErr,             \* exception init_db raised, or "none"
    dbClosed,          \* close_db() has disposed the engine
    jobs,              \* the broker's record of each job identifier
    nextJob,           \* number of job identifiers the broker has assigned
    arg,               \* per request task: the job identifier it passed
    data,              \* the request data handed to validate_task_input
    verdict,           \* what validate_task_input did with it
    lastClose          \* value of calls when close_pool was last called

envVars == <<broker, dbm, envChanges>>
poolVars == <<pool, created, open, closing>>
callVars == <<pc, attempt, tries, slept, res, err, cold, fails, solo>>
reqVars == <<op, out, calls>>
lifeVars == <<lpc, db_initialized, queue_initialized, dbClosed>>
dbVars == <<dbAttempt, dbTries, dbSlept, dbErr>>
jobVars == <<jobs, nextJob, arg>>
valVars == <<data, verdict>>
histVars == <<lastClose>>
vars == <<envVars, poolVars, callVars, reqVars, lifeVars, dbVars, jobVars,
          valVars, histVars>>

InitApp ==
    /\ broker \in BrokerModes
    /\ dbm \in DbModes
    /\ envChanges = 0
    /\ pool = None
    /\ created = 0
    /\ open = {}
    /\ closing = None
    /\ pc = [p \in Procs |-> "idle"]
    /\ attempt = [p \in Procs |-> 0]
    /\ tries = [p \in Procs |-> 0]
    /\ slept = [p \in Procs |-> 0]
    /\ res = [p \in Procs |-> None]
    /\ err = [p \in Procs |-> "none"]
    /\ cold = [p \in Procs |-> FALSE]
    /\ fails = [p \in Procs |-> 0]
    /\ solo = [p \in Procs |-> FALSE]
    /\ op = [p \in Reqs |-> "none"]
    /\ out = [p \in Reqs |-> "none"]
    /\ calls = 0
    /\ lpc = "start"
    /\ db_initialized = FALSE
    /\ queue_initialized = FALSE
    /\ dbAttempt = 0
    /\ dbTries = 0
    /\ dbSlept = 0
    /\ dbErr = "none"
    /\ dbClosed = FALSE
    /\ jobs = [j \in JobIds |-> "none"]
    /\ nextJob = 0
    /\ arg = [p \in Reqs |-> 0]

\* No request data is being validated.
NoData ==
    [source |-> [kind |-> "absent",
                 url |-> [kind |-> "absent", text |-> <<>>],
                 other |-> FALSE],
     font_options |-> [kind |-> "absent",
                       font_size |-> [kind |-> "absent", val |-> 0]]]
NoVerdict == [status |-> "none", value |-> NoData]

Init ==
    /\ InitApp
    /\ lastClose = 0
    /\ data = NoData
    /\ verdict = NoVerdict

(* ---------------------------------------------------------------------- *)
(* JobQueue.get_pool                                                       *)
(* ---------------------------------------------------------------------- *)
\* What the caller of get_pool does, in the same step, when get_pool raises:
\* check_redis_health catches it and answers unhealthy; the job operations
\* let it propagate.
SwallowRaise(o) == IF o = "health_redis" THEN "unhealthy" ELSE "None"
OnRaise(o) == IF o = "health_redis" THEN "unhealthy" ELSE "error"

\* A task enters the retried body of get_pool: with a cached handle it
\* returns it at once, otherwise it awaits create_pool.
\* n is the attempt number of this entry.
EnterBody(p, n) ==
    /\ attempt' = [attempt EXCEPT ![p] = n]
    /\ IF pool # None
       THEN /\ pc' = [pc EXCEPT ![p] = "ret"]
            /\ res' = [res EXCEPT ![p] = pool]
            /\ tries' = IF pc[p] = "sleeping" THEN tries
                         ELSE [tries EXCEPT ![p] = 0]
       ELSE /\ pc' = [pc EXCEPT ![p] = "creating"]
            /\ res' = [res EXCEPT ![p] = None]
            /\ tries' = [tries EXCEPT
                           ![p] = IF pc[p] = "sleeping" THEN @ + 1 ELSE 1]

\* tenacity gives every call of the wrapped function a retry state of its
\* own: attempt_number starts at 1 whatever the calls before did.
ResumeCount(prev) == IF prev = 0 THEN 1 ELSE prev
FirstAttempt(prev) == 1

\* The call of get_pool by task p.
get_pool(p) ==
    /\ EnterBody(p, FirstAttempt(attempt[p]))
    /\ slept' = [slept EXCEPT ![p] = 0]
    /\ err' = [err EXCEPT ![p] = "none"]
    /\ cold' = [cold EXCEPT ![p] = (pool = None)]
    /\ fails' = [fails EXCEPT ![p] = 0]
    /\ solo' = [q \in Procs |->
                 IF q = p
                 THEN \A r \in Procs \ {p} : pc[r] \notin {"creating", "sleeping"}
                 ELSE IF pool = None /\ pc[q] \in {"creating", "sleeping"}
                      THEN FALSE
                      ELSE solo[q]]

\* The request's operation ends because get_pool raised.
RequestAfterRaise(p) ==
    IF p \in Reqs
    THEN out' = [out EXCEPT ![p] = OnRaise(op[p])]
    ELSE UNCHANGED out

\* line 40: what cls._pool is assigned once create_pool returned handle h.
DropHandle(h) == None
StorePool(h) == h

\* create_pool completes for task p.  When the attempt is retried, tenacity
\* computes the wait and the stop test from the attempt number of the failed
\* attempt, then moves attempt_number on to the next attempt and only then
\* sleeps.
CreatePoolDone(p) ==
    /\ pc[p] = "creating"
    /\ IF broker = "up"
       THEN /\ created' = created + 1
            /\ open' = open \cup {created + 1}
            /\ pool' = StorePool(created + 1)
            /\ res' = [res EXCEPT ![p] = pool']
            /\ pc' = [pc EXCEPT ![p] = "ret"]
            /\ UNCHANGED <<attempt, slept, err, out, fails>>
       ELSE /\ UNCHANGED <<created, open, pool, res>>
            /\ fails' = [fails EXCEPT ![p] = @ + 1]
            /\ IF queue_retry(broker) /\ ~stop_after_attempt(attempt[p])
               THEN /\ pc' = [pc EXCEPT ![p] = "sleeping"]
                    /\ slept' = [slept EXCEPT
                                   ![p] = @ + wait_exponential(attempt[p])]
                    /\ attempt' = [attempt EXCEPT ![p] = @ + 1]
                    /\ UNCHANGED <<err, out>>
               ELSE /\ pc' = [pc EXCEPT ![p] = "raised"]
                    /\ err' = [err EXCEPT ![p] = reraise(broker)]
                    /\ RequestAfterRaise(p)
                    /\ UNCHANGED <<attempt, slept>>
    /\ UNCHANGED <<histVars, valVars, jobVars, envVars, closing, tries, cold,
                   solo, op, calls, lifeVars, dbVars>>

\* The backoff sleep of task p ends: the next attempt, whose number the
\* call already carries, enters the body.
SleepDone(p) ==
    /\ pc[p] = "sleeping"
    /\ EnterBody(p, attempt[p])
    /\ UNCHANGED <<histVars, valVars, jobVars, envVars, poolVars, slept, err, cold, fails, solo,
                   reqVars, lifeVars, dbVars>>

(* ---------------------------------------------------------------------- *)
(* init_db and close_db (database.py)                                      *)
(* ---------------------------------------------------------------------- *)
\* database.py lines 45-47: the connect_args the engine is created with and
\* passes to asyncpg for every connection it opens.
connect_args == [ssl |-> "require"]

\* lifespan lines 53 and 62: "except Exception" catches whatever the
\* initialisation raised (every class here derives from Exception).
ExceptOSErrorOnly(k) == "OSError" \in Superclasses(k)
except_Exception(k) == TRUE

\* lifespan lines 57-59: after init_db ended, the queue is initialised:
\* the lifespan task calls JobQueue.get_pool().
LifespanInitQueue ==
    /\ lpc' = "get_pool"
    /\ get_pool(Lifespan)

\* lifespan lines 44-50: startup begins with the first attempt of init_db.
LifespanStart ==
    /\ lpc = "start"
    /\ lpc' = "init_db"
    /\ dbAttempt' = 1
    /\ dbTries' = 1
    /\ dbSlept' = 0
    /\ dbErr' = "none"
    /\ UNCHANGED <<histVars, valVars, jobVars, envVars, poolVars, callVars, reqVars, db_initialized,
                   queue_initialized, dbClosed>>

\* engine.begin() / SELECT 1 / create_all of one init_db attempt completes.
InitDbDone ==
    /\ lpc = "init_db"
    /\ IF dbm = "up"
       THEN /\ db_initialized' = TRUE
            /\ LifespanInitQueue
            /\ UNCHANGED <<dbSlept, dbErr, dbAttempt>>
       ELSE IF db_retry(dbm) /\ ~stop_after_attempt(dbAttempt)
            THEN /\ lpc' = "db_sleep"
                 /\ dbSlept' = dbSlept + db_wait_exponential(dbAttempt)
                 /\ dbAttempt' = dbAttempt + 1
                 /\ UNCHANGED <<db_initialized, dbErr, callVars>>
            ELSE /\ dbErr' = reraise(dbm)
                 /\ IF except_Exception(dbErr')
                    THEN LifespanInitQueue
                    ELSE /\ lpc' = "aborted"
                         /\ UNCHANGED callVars
                 /\ UNCHANGED <<db_initialized, dbSlept, dbAttempt>>
    /\ UNCHANGED <<histVars, valVars, jobVars, envVars, poolVars, reqVars,
                   queue_initialized, dbClosed, dbTries>>

\* The backoff sleep of init_db ends: the next attempt, whose number the
\* call already carries, begins.
DbSleepDone ==
    /\ lpc = "db_sleep"
    /\ lpc' = "init_db"
    /\ dbTries' = dbTries + 1
    /\ UNCHANGED <<histVars, valVars, jobVars, envVars, poolVars, callVars, reqVars, db_initialized,
                   queue_initialized, dbClosed, dbAttempt, dbSlept, dbErr>>

\* lifespan lines 59-72: the lifespan's get_pool call has ended; the flag is
\* set when it returned, and the application starts serving (yield).  The
\* retry states of the two startup calls are gone with the calls.
LifespanYield ==
    /\ lpc = "get_pool"
    /\ pc[Lifespan] \in {"ret", "raised"}
    /\ queue_initialized' = (pc[Lifespan] = "ret")
    /\ lpc' = IF pc[Lifespan] = "raised" /\ ~except_Exception(err[Lifespan])
              THEN "aborted" ELSE "running"
    /\ pc' = [pc EXCEPT ![Lifespan] = "idle"]
    /\ attempt' = [attempt EXCEPT ![Lifespan] = 0]
    /\ tries' = [tries EXCEPT ![Lifespan] = 0]
    /\ slept' = [slept EXCEPT ![Lifespan] = 0]
    /\ res' = [res EXCEPT ![Lifespan] = None]
    /\ err' = [err EXCEPT ![Lifespan] = "none"]
    /\ cold' = [cold EXCEPT ![Lifespan] = FALSE]
    /\ fails' = [fails EXCEPT ![Lifespan] = 0]
    /\ solo' = [solo EXCEPT ![Lifespan] = FALSE]
    /\ dbAttempt' = 0
    /\ dbTries' = 0
    /\ dbSlept' = 0
    /\ dbErr' = "none"
    /\ UNCHANGED <<histVars, valVars, jobVars, envVars, poolVars, reqVars, db_initialized,
                   dbClosed>>

(* ---------------------------------------------------------------------- *)
(* Shutdown: the finally block of lifespan, close_db, JobQueue.close_pool  *)
(* ---------------------------------------------------------------------- *)
\* Whether the finally block calls JobQueue.close_pool() (line 79).
ShutdownClosesQueue(qi) == qi

\* Whether the finally block calls close_db() (line 77).
ShutdownClosesDb(di) == di

\* lines 79-80 and close_pool: with a cached handle, await its close().
ShutdownQueue ==
    IF ShutdownClosesQueue(queue_initialized) /\ pool # None
    THEN /\ lpc' = "close_pool"
         /\ closing' = pool
    ELSE /\ lpc' = "done"
         /\ UNCHANGED closing

\* The server stops: the finally block starts.  The server runs the
\* lifespan's shutdown once the requests in flight have been answered.
Shutdown ==
    /\ lpc = "running"
    /\ \A p \in Reqs : pc[p] \in {"idle", "done", "raised"}
    /\ IF ShutdownClosesDb(db_initialized)
       THEN /\ lpc' = "close_db"
            /\ UNCHANGED closing
       ELSE ShutdownQueue
    /\ UNCHANGED <<histVars, valVars, jobVars, envVars, pool, created, open, callVars, reqVars,
                   db_initialized, queue_initialized, dbClosed, dbVars>>

\* engine.dispose() completes.
CloseDbDone ==
    /\ lpc = "close_db"
    /\ dbClosed' = TRUE
    /\ ShutdownQueue
    /\ UNCHANGED <<histVars, valVars, jobVars, envVars, pool, created, open, callVars, reqVars,
                   db_initialized, queue_initialized, dbVars>>

\* close_pool: cls._pool.close() completes, then cls._pool = None.
ClosePoolDone ==
    /\ lpc = "close_pool"
    /\ open' = open \ {closing}
    /\ pool' = None
    /\ closing' = None
    /\ lpc' = "done"
    /\ UNCHANGED <<histVars, valVars, jobVars, envVars, created, callVars, reqVars, db_initialized,
                   queue_initialized, dbClosed, dbVars>>

(* ---------------------------------------------------------------------- *)
(* Requests served while the application runs                              *)
(* ---------------------------------------------------------------------- *)
\* A request task starts operation o: every operation begins with
\* pool = await JobQueue.get_pool().
\* id is the job identifier the request passes (0 when it passes none).
StartRequest(p, o, id) ==
    /\ lpc = "running"
    /\ pc[p] \in {"idle", "done", "raised"}
    /\ calls < MaxCalls
    /\ calls' = calls + 1
    /\ op' = [op EXCEPT ![p] = o]
    /\ arg' = [arg EXCEPT ![p] = id]
    /\ out' = [out EXCEPT ![p] = "none"]
    /\ get_pool(p)
    /\ UNCHANGED <<histVars, valVars, jobs, nextJob, envVars, poolVars, lifeVars, dbVars>>

\* check_redis_health: await pool.ping() completes.
PingDone(p) ==
    /\ pc[p] = "ret"
    /\ op[p] = "health_redis"
    /\ pc' = [pc EXCEPT ![p] = "done"]
    /\ out' = [out EXCEPT ![p] = IF broker = "up" /\ res[p] \in open
                                 THEN "healthy" ELSE "unhealthy"]
    /\ UNCHANGED <<histVars, valVars, jobVars, envVars, poolVars, attempt, tries, slept, res,
                   err, cold, fails, solo, op, calls, lifeVars, dbVars>>

(* ---------------------------------------------------------------------- *)
(* Job operations: enqueue_job, get_job_status, get_job_result             *)
(* ---------------------------------------------------------------------- *)
\* A round trip on the handle the task holds succeeds when the broker is
\* reachable and the handle has not been closed.
Reachable(p) == broker = "up" /\ res[p] \in open

\* The identifier of a job enqueued with none given: arq draws a new one for
\* every call (uuid4), here the next number after the n assigned so far.
NewJobId(n) == n + 1

\* enqueue_job line 69: the request of pool.enqueue_job reaches the broker,
\* which stores the job under a fresh identifier; the task goes on awaiting
\* the broker's reply.  arg holds the identifier of the job stored.
EnqueueCommit(p) ==
    /\ pc[p] = "ret"
    /\ op[p] = "enqueue"
    /\ IF Reachable(p)
       THEN /\ nextJob' = nextJob + 1
            /\ jobs' = [jobs EXCEPT ![NewJobId(nextJob)] = "queued"]
            /\ arg' = [arg EXCEPT ![p] = NewJobId(nextJob)]
            /\ pc' = [pc EXCEPT ![p] = "committed"]
            /\ UNCHANGED out
       ELSE /\ pc' = [pc EXCEPT ![p] = "done"]
            /\ out' = [out EXCEPT ![p] = "error"]
            /\ UNCHANGED <<jobs, nextJob, arg>>
    /\ UNCHANGED <<histVars, valVars, envVars, poolVars, attempt, tries, slept, res, err, cold,
                   fails, solo, op, calls, lifeVars, dbVars>>

\* enqueue_job lines 69-71: await pool.enqueue_job completes.  With the
\* broker's reply the job's identifier is returned; when the connection was
\* lost after the broker stored the job, the await raises and the caller
\* gets no identifier.
EnqueueDone(p) ==
    /\ pc[p] = "committed"
    /\ pc' = [pc EXCEPT ![p] = "done"]
    /\ IF Reachable(p)
       THEN /\ out' = [out EXCEPT ![p] = "id"]
            /\ UNCHANGED arg
       ELSE /\ out' = [out EXCEPT ![p] = "error"]
            /\ arg' = [arg EXCEPT ![p] = 0]
    /\ UNCHANGED <<histVars, valVars, jobs, nextJob, envVars, poolVars, attempt, tries, slept,
                   res, err, cold, fails, solo, op, calls, lifeVars, dbVars>>

\* lines 77 and 86: job = await pool.job(job_id).  ArqRedis defines no
\* attribute job (arq builds the handle of a job with Job(job_id, redis)),
\* so the expression raises AttributeError before anything is sent to the
\* broker, whatever the identifier and whatever the broker holds for it;
\* lines 78-80 and 87-89 are not reached.
pool_job(id) == "AttributeError"

JobLookupDone(p) ==
    /\ pc[p] = "ret"
    /\ op[p] \in {"status", "result"}
    /\ pc' = [pc EXCEPT ![p] = "done"]
    /\ err' = [err EXCEPT ![p] = pool_job(arg[p])]
    /\ out' = [out EXCEPT ![p] = "error"]
    /\ UNCHANGED <<histVars, valVars, jobVars, envVars, poolVars, attempt, tries, slept, res,
                   cold, fails, solo, op, calls, lifeVars, dbVars>>

\* A request that enqueues starts only while the broker has identifiers
\* left within the model's bound.
StartEnqueue(p) ==
    /\ nextJob + Cardinality({q \in Reqs : op[q] = "enqueue"
                                           /\ pc[q] \in {"creating", "sleeping", "ret"}})
         < MaxJobs
    /\ StartRequest(p, "enqueue", 0)

\* The workers, out of process: they pick a queued job up and finish it.
JobAdvance(j) ==
    /\ jobs[j] \in {"queued", "in_progress"}
    /\ \E st \in (IF jobs[j] = "queued" THEN {"in_progress"}
                  ELSE {"complete", "failed"}) :
          jobs' = [jobs EXCEPT ![j] = st]
    /\ UNCHANGED <<histVars, valVars, nextJob, arg, envVars, poolVars, callVars, reqVars,
                   lifeVars, dbVars>>

\* The broker drops a finished job's record after its retention window.
JobExpire(j) ==
    /\ jobs[j] \in {"complete", "failed"}
    /\ jobs' = [jobs EXCEPT ![j] = "none"]
    /\ UNCHANGED <<histVars, valVars, nextJob, arg, envVars, poolVars, callVars, reqVars,
                   lifeVars, dbVars>>

(* ---------------------------------------------------------------------- *)
(* The backends                                                            *)
(* ---------------------------------------------------------------------- *)
BrokerChange ==
    /\ envChanges < MaxEnvChanges
    /\ envChanges' = envChanges + 1
    /\ broker' \in BrokerModes \ {broker}
    /\ UNCHANGED <<histVars, valVars, jobVars, dbm, poolVars, callVars, reqVars, lifeVars, dbVars>>

\* The database's behaviour is observed by init_db and by the probe of
\* /health/db; it may change at any time.
DbChange ==
    /\ envChanges < MaxEnvChanges
    /\ envChanges' = envChanges + 1
    /\ dbm' \in DbModes \ {dbm}
    /\ UNCHANGED <<histVars, valVars, jobVars, broker, poolVars, callVars, reqVars, lifeVars, dbVars>>

(* ---------------------------------------------------------------------- *)
(* Specification: the application from startup to shutdown, its requests   *)
(* checking the queue's health                                             *)
(* ---------------------------------------------------------------------- *)
Next ==
    \/ LifespanStart
    \/ InitDbDone
    \/ DbSleepDone
    \/ LifespanYield
    \/ \E p \in Procs : CreatePoolDone(p)
    \/ \E p \in Procs : SleepDone(p)
    \/ \E p \in Reqs : StartRequest(p, "health_redis", 0)
    \/ \E p \in Reqs : PingDone(p)
    \/ Shutdown
    \/ CloseDbDone
    \/ ClosePoolDone
    \/ BrokerChange
    \/ DbChange

Spec == Init /\ [][Next]_vars

(* ---------------------------------------------------------------------- *)
(* Specification: the application started, its requests using the job      *)
(* queue while the workers process the jobs                                *)
(* ---------------------------------------------------------------------- *)
NextJobs ==
    \/ LifespanStart
    \/ InitDbDone
    \/ LifespanYield
    \/ \E p \in Procs : CreatePoolDone(p)
    \/ \E p \in Procs : SleepDone(p)
    \/ \E p \in Reqs : StartEnqueue(p)
    \/ \E p \in Reqs, j \in JobIds : StartRequest(p, "status", j)
    \/ \E p \in Reqs, j \in JobIds : StartRequest(p, "result", j)
    \/ \E p \in Reqs : EnqueueCommit(p)
    \/ \E p \in Reqs : EnqueueDone(p)
    \/ \E p \in Reqs : JobLookupDone(p)
    \/ \E j \in JobIds : JobAdvance(j)
    \/ \E j \in JobIds : JobExpire(j)
    \/ BrokerChange

\* The job operations never touch the database: it is up, and init_db
\* succeeds at its first attempt.
InitJobs == Init /\ dbm = "up"

SpecJobs == InitJobs /\ [][NextJobs]_vars

(* ---------------------------------------------------------------------- *)
(* check_database_health                                                   *)
(* ---------------------------------------------------------------------- *)
\* Lines 136-140: what the handler answers once db.execute(SELECT 1) has
\* completed against a database behaving as m; "except Exception" turns
\* whatever the probe raised into the unhealthy answer.
DbProbeRaises(m) == IF m = "up" THEN "healthy" ELSE "error"
db_probe(m) == IF m = "up" THEN "healthy" ELSE "unhealthy"

\* GET /health/db starts: get_db hands the handler a session (no round trip
\* yet) and the handler awaits db.execute.
StartDbHealth(p) ==
    /\ lpc = "running"
    /\ pc[p] \in {"idle", "done", "raised"}
    /\ calls < MaxCalls
    /\ calls' = calls + 1
    /\ op' = [op EXCEPT ![p] = "health_db"]
    /\ out' = [out EXCEPT ![p] = "none"]
    /\ pc' = [pc EXCEPT ![p] = "db_probe"]
    /\ UNCHANGED <<histVars, valVars, jobVars, envVars, poolVars, attempt, tries, slept, res,
                   err, cold, fails, solo, lifeVars, dbVars>>

\* db.execute(SELECT 1) completes.
DbProbeDone(p) ==
    /\ pc[p] = "db_probe"
    /\ pc' = [pc EXCEPT ![p] = "done"]
    /\ out' = [out EXCEPT ![p] = db_probe(dbm)]
    /\ UNCHANGED <<histVars, valVars, jobVars, envVars, poolVars, attempt, tries, slept, res,
                   err, cold, fails, solo, op, calls, lifeVars, dbVars>>

(* ---------------------------------------------------------------------- *)
(* Specification: startup, then requests checking the health of the        *)
(* database and of the queue                                               *)
(* ---------------------------------------------------------------------- *)
NextHealth ==
    \/ LifespanStart
    \/ InitDbDone
    \/ DbSleepDone
    \/ LifespanYield
    \/ \E p \in Procs : CreatePoolDone(p)
    \/ \E p \in Procs : SleepDone(p)
    \/ \E p \in Reqs : StartRequest(p, "health_redis", 0)
    \/ \E p \in Reqs : PingDone(p)
    \/ \E p \in Reqs : StartDbHealth(p)
    \/ \E p \in Reqs : DbProbeDone(p)
    \/ BrokerChange
    \/ DbChange

SpecHealth == Init /\ [][NextHealth]_vars

(* ---------------------------------------------------------------------- *)
(* Input validation (utils/validators.py)                                  *)
(* ---------------------------------------------------------------------- *)
\* A URL is the sequence of its pieces: the delimiters urlparse looks for,
\* each a piece of its own, and the runs of other characters between them.
\* Joining the pieces gives the string.
PathDelims == {"/", "?", "#"}

\* validate_youtube_url lines 23-28
allowed_domains == {"youtube.com", "www.youtube.com", "youtu.be",
                    "m.youtube.com"}

\* Pieces made of scheme characters only (letters, digits, "+", "-", "."),
\* and those of them that begin with a letter.
SchemeWords == {"https", "http", "ftp", "youtube.com", "www.youtube.com",
                "youtu.be", "m.youtube.com", "evil.com", "vimeo.com",
                "localhost", "WWW.YOUTUBE.COM", "user", "443", "watch",
                "video", "test", "x"}
AlphaFirst == SchemeWords \ {"443"}

\* str.lstrip of the leading blanks (urlsplit strips them first).
RECURSIVE lstrip(_)
lstrip(u) == IF u # <<>> /\ Head(u) = " " THEN lstrip(Tail(u)) ELSE u

\* Index of the first piece of u that is in set D, Len(u) + 1 if none.
RECURSIVE Find(_, _, _)
Find(u, D, i) ==
    IF i > Len(u) THEN Len(u) + 1
    ELSE IF u[i] \in D THEN i ELSE Find(u, D, i + 1)

\* urlsplit's scheme step: with a first ":" that is not the first piece, the
\* first character a letter and only scheme characters before the ":", the
\* scheme is split off; what is returned is the rest of the URL.
AfterScheme(u) ==
    LET i == Find(u, {":"}, 1)
    IN  IF /\ i > 1 /\ i <= Len(u)
           /\ u[1] \in AlphaFirst
           /\ \A k \in 1..(i - 1) : u[k] \in SchemeWords
        THEN SubSeq(u, i + 1, Len(u))
        ELSE u

\* Pieces made of at most four hexadecimal digits: the groups an IPv6
\* address is written with.
HexWords == {"443"}

\* ipaddress.ip_address(host) accepts the host as an IPv6 address: groups of
\* hexadecimal digits separated by ":", eight of them, or fewer with one
\* "::" standing for the missing ones.  (No piece of the model writes an
\* IPv4 address, which brackets may not hold, or an IPvFuture address.)
IsIPv6(h) ==
    LET n == Cardinality({k \in 1..Len(h) : h[k] \in HexWords})
        doubles == Cardinality({k \in 1..(Len(h) - 1) :
                                   h[k] = ":" /\ h[k + 1] = ":"})
    IN  /\ Len(h) >= 2
        /\ \A k \in 1..Len(h) : h[k] \in HexWords \cup {":"}
        /\ \A k \in 1..(Len(h) - 1) :
              ~(h[k] \in HexWords /\ h[k + 1] \in HexWords)
        /\ h[1] = ":" => h[2] = ":"
        /\ h[Len(h)] = ":" => h[Len(h) - 1] = ":"
        /\ \/ doubles = 0 /\ n = 8
           \/ doubles = 1 /\ n <= 7

\* netloc.partition('[')[2].partition(']')[0]: what stands between the
\* first "[" and the first "]" after it.
BracketedHost(netloc) ==
    LET a == SubSeq(netloc, Find(netloc, {"["}, 1) + 1, Len(netloc))
    IN  SubSeq(a, 1, Find(a, {"]"}, 1) - 1)

\* urlparse(url).netloc: after the scheme, when the rest begins with "//",
\* everything up to the next "/", "?" or "#"; otherwise empty.  A netloc with
\* one square bracket and not the other raises ValueError, and so does one
\* with both whose bracketed host is not an IPv6 address.
urlparse(url) ==
    LET r == AfterScheme(lstrip(url))
        has == Len(r) >= 2 /\ r[1] = "/" /\ r[2] = "/"
        rest == IF has THEN SubSeq(r, 3, Len(r)) ELSE <<>>
        netloc == SubSeq(rest, 1, Find(rest, PathDelims, 1) - 1)
        lb == \E k \in 1..Len(netloc) : netloc[k] = "["
        rb == \E k \in 1..Len(netloc) : netloc[k] = "]"
    IN  IF lb # rb THEN [error |-> "ValueError", netloc |-> <<>>]
        ELSE IF lb /\ rb /\ ~IsIPv6(BracketedHost(netloc))
             THEN [error |-> "ValueError", netloc |-> <<>>]
        ELSE [error |-> "none", netloc |-> netloc]

\* `parsed.netloc not in allowed_domains`: the netloc is one of the strings.
InAllowedDomains(netloc) == Len(netloc) = 1 /\ netloc[1] \in allowed_domains

\* validate_youtube_url: "True", or the exception it raises.  urlparse reads
\* None as the empty URL, whose netloc is not allowed.  The int is a url that
\* is neither a string nor false: urlparse fails on it with AttributeError,
\* which the except ValueError clause does not catch.
validate_youtube_url(url) ==
    IF url.kind \notin {"str", "absent", "null"} THEN "AttributeError"
    ELSE LET parsed == urlparse(url.text)
         IN  IF parsed.error = "ValueError" THEN "HTTP400"
             ELSE IF ~InAllowedDomains(parsed.netloc) THEN "HTTP400"
             ELSE "True"

\* Python truth of data.get("source") and of raw_source.get("url"): a missing
\* key gives None; None, an empty dict and an empty string are false.  (other
\* tells that a string source is not empty and that a dict source has a key
\* besides "url".)
SourceIsFalse(src) ==
    \/ src.kind \in {"absent", "null"}
    \/ src.kind = "str" /\ ~src.other
    \/ src.kind = "dict" /\ src.url.kind = "absent" /\ ~src.other
UrlIsFalse(url) ==
    \/ url.kind \in {"absent", "null"}
    \/ url.kind = "str" /\ url.text = <<>>

\* font_options.get("font_size", 24)
DefaultFontSize == [kind |-> "int", val |-> 24]
font_size_of(fo) ==
    IF fo.kind = "absent" \/ fo.font_size.kind = "absent"
    THEN DefaultFontSize
    ELSE fo.font_size

\* Line 70.  isinstance(font_size, int) holds for an int and for a bool,
\* which compares as 0 or 1.
FontSizeRejected(fs) ==
    \/ fs.kind \notin {"int", "bool"}
    \/ fs.val < 10
    \/ fs.val > 100

Raised(e) == [status |-> e, value |-> NoData]

\* validate_task_input(data): the data returned, or the exception raised.
validate_task_input(d) ==
    IF SourceIsFalse(d.source) THEN Raised("HTTP400")
    ELSE IF d.source.kind # "dict" THEN Raised("AttributeError")
    ELSE IF UrlIsFalse(d.source.url) THEN Raised("HTTP400")
    ELSE IF validate_youtube_url(d.source.url) # "True"
         THEN Raised(validate_youtube_url(d.source.url))
    ELSE IF d.font_options.kind \notin {"absent", "dict"}
         THEN Raised("AttributeError")
    ELSE IF FontSizeRejected(font_size_of(d.font_options))
         THEN Raised("HTTP400")
    ELSE [status |-> "returned", value |-> d]

\* The function is applied to the request data.
ValidateTaskInput ==
    /\ verdict.status = "none"
    /\ verdict' = validate_task_input(data)
    /\ UNCHANGED <<data, envVars, poolVars, callVars, reqVars, lifeVars,
                   dbVars, jobVars, histVars>>

\* The request data the function is applied to.
Urls ==
    { <<"https", ":", "/", "/", "www.youtube.com", "/", "watch", "?", "v=test">>,
      <<"https", ":", "/", "/", "youtube.com", "/", "watch", "?", "v=test">>,
      <<"https", ":", "/", "/", "youtu.be", "/", "test">>,
      <<"https", ":", "/", "/", "m.youtube.com", "/", "watch", "?", "v=test">>,
      <<"https", ":", "/", "/", "evil.com", "/", "video">>,
      <<"https", ":", "/", "/", "vimeo.com", "/", "video">>,
      <<"http", ":", "/", "/", "localhost", "/", "video">>,
      <<"https", ":", "/", "/", "youtube.com">>,
      <<"https", ":", "/", "/", "youtube.com", ":", "443", "/", "x">>,
      <<"https", ":", "/", "/", "user", "@", "youtube.com", "/", "x">>,
      <<"https", ":", "/", "/", "WWW.YOUTUBE.COM", "/", "x">>,
      <<"https", ":", "/", "/", "evil.com", "/", "youtube.com">>,
      <<"https", ":", "/", "/", "evil.com", "#", "/", "/", "youtube.com", "/">>,
      <<"https", ":", "/", "/", "[", "youtube.com", "/", "x">>,
      <<"https", ":", "/", "/", "[", "youtube.com", "]", "/", "x">>,
      <<"https", ":", "/", "/", "[", ":", ":", "443", "]", "/", "x">>,
      <<"https", ":", "/", "youtube.com", "/", "x">>,
      <<"ftp", ":", "/", "/", "youtube.com", "/", "x">>,
      <<"/", "/", "youtube.com", "/", "x">>,
      <<"youtube.com", "/", "watch">>,
      <<"youtube.com", ":", "443", "/", "x">>,
      <<" ", "https", ":", "/", "/", "youtube.com", "/", "x">> }

UrlValues ==
    {[kind |-> k, text |-> <<>>] : k \in {"absent", "null", "str", "int"}}
        \cup {[kind |-> "str", text |-> u] : u \in Urls}

AbsentUrl == [kind |-> "absent", text |-> <<>>]

\* data["source"]: missing, null, a string (other: it is not empty), or a
\* dict with or without "url" (other: the dict has some other key, so that
\* it is not empty).
SourceValues ==
    {[kind |-> k, url |-> AbsentUrl, other |-> FALSE] :
         k \in {"absent", "null"}}
        \cup {[kind |-> "str", url |-> AbsentUrl, other |-> o] :
                 o \in BOOLEAN}
        \cup {[kind |-> "dict", url |-> u, other |-> o] :
                 u \in UrlValues, o \in BOOLEAN}

FontSizeValues ==
    {[kind |-> k, val |-> 0] : k \in {"absent", "null"}}
        \cup {[kind |-> "int", val |-> v] : v \in {9, 10, 24, 100, 101, 200}}
        \cup {[kind |-> "bool", val |-> 1],
              [kind |-> "float", val |-> 24],
              [kind |-> "str", val |-> 24]}

AbsentFontSize == [kind |-> "absent", val |-> 0]

FontOptionsValues ==
    {[kind |-> k, font_size |-> AbsentFontSize] :
         k \in {"absent", "null", "list"}}
        \cup {[kind |-> "dict", font_size |-> f] : f \in FontSizeValues}

TaskInputs ==
    {[source |-> src, font_options |-> fo] :
         src \in SourceValues, fo \in FontOptionsValues}

(* ---------------------------------------------------------------------- *)
(* Specification: validate_task_input applied to one request's data        *)
(* ---------------------------------------------------------------------- *)
InitValidate ==
    /\ InitApp
    /\ broker = "up"
    /\ dbm = "up"
    /\ data \in TaskInputs
    /\ lastClose = 0
    /\ verdict = NoVerdict

NextValidate == ValidateTaskInput

SpecValidate == InitValidate /\ [][NextValidate]_vars

(* ---------------------------------------------------------------------- *)
(* JobQueue.close_pool called by a task, and the cancellation of a task    *)
(* ---------------------------------------------------------------------- *)
\* close_pool line 52: what cls._pool is assigned after close() on handle h.
KeepPool(h) == h
ClearPool(h) == None

\* A task calls close_pool (lines 50-51): with a cached handle it awaits the
\* handle's close(); with none it returns at once.  res holds the handle
\* whose close() the task awaits.
ClosePoolCall(p) ==
    /\ lpc = "running"
    /\ pc[p] \in {"idle", "done", "raised"}
    /\ calls < MaxCalls
    /\ calls' = calls + 1
    /\ lastClose' = calls'
    /\ op' = [op EXCEPT ![p] = "close_pool"]
    /\ out' = [out EXCEPT ![p] = "none"]
    /\ res' = [res EXCEPT ![p] = pool]
    /\ pc' = [pc EXCEPT ![p] = IF pool # None THEN "closing" ELSE "done"]
    /\ solo' = [q \in Procs |->
                 IF q = p
                 THEN \A r \in Procs \ {p} : pc[r] # "closing"
                 ELSE IF pool # None /\ pc[q] = "closing"
                      THEN FALSE
                      ELSE solo[q]]
    /\ UNCHANGED <<valVars, jobVars, envVars, poolVars, attempt, tries, slept, err,
                   cold, fails, lifeVars, dbVars>>

\* close_pool lines 51-52: close() completes, then cls._pool = None.
ClosePoolReturn(p) ==
    /\ pc[p] = "closing"
    /\ open' = open \ {res[p]}
    /\ pool' = ClearPool(res[p])
    /\ pc' = [pc EXCEPT ![p] = "done"]
    /\ UNCHANGED <<histVars, valVars, jobVars, envVars, created, closing, attempt, tries, slept,
                   res, err, cold, fails, solo, reqVars, lifeVars, dbVars>>

\* The mistake of letting the cancellation of one caller take the callers
\* waiting beside it along.
CancelShared(p) ==
    /\ pc[p] \in {"creating", "sleeping"}
    /\ pc' = [q \in Procs |-> IF pc[q] \in {"creating", "sleeping"}
                              THEN "raised" ELSE pc[q]]
    /\ err' = [q \in Procs |-> IF pc[q] \in {"creating", "sleeping"}
                               THEN "CancelledError" ELSE err[q]]
    /\ out' = [out EXCEPT ![p] = "cancelled"]
    /\ UNCHANGED <<histVars, valVars, jobVars, envVars, poolVars, attempt, tries, slept, res,
                   cold, fails, solo, op, calls, lifeVars, dbVars>>

\* The task of a request waiting inside get_pool (on create_pool or on the
\* backoff sleep) is cancelled: CancelledError is raised at its await.  It
\* is not an Exception, so neither line 42 nor tenacity's retry condition nor
\* the health check's except clause holds it back.
Cancel(p) ==
    /\ pc[p] \in {"creating", "sleeping"}
    /\ pc' = [pc EXCEPT ![p] = "raised"]
    /\ err' = [err EXCEPT ![p] = "CancelledError"]
    /\ out' = [out EXCEPT ![p] = "cancelled"]
    /\ UNCHANGED <<histVars, valVars, jobVars, envVars, poolVars, attempt, tries, slept, res,
                   cold, fails, solo, op, calls, lifeVars, dbVars>>

(* ---------------------------------------------------------------------- *)
(* Specification: the application started, tasks calling get_pool (through *)
(* the health check) and close_pool, and being cancelled                   *)
(* ---------------------------------------------------------------------- *)
NextPool ==
    \/ LifespanStart
    \/ InitDbDone
    \/ LifespanYield
    \/ \E p \in Procs : CreatePoolDone(p)
    \/ \E p \in Procs : SleepDone(p)
    \/ \E p \in Reqs : StartRequest(p, "health_redis", 0)
    \/ \E p \in Reqs : PingDone(p)
    \/ \E p \in Reqs : ClosePoolCall(p)
    \/ \E p \in Reqs : ClosePoolReturn(p)
    \/ \E p \in Reqs : Cancel(p)
    \/ BrokerChange

SpecPool == InitJobs /\ [][NextPool]_vars

(* ---------------------------------------------------------------------- *)
(* Specification: the application started, its requests using the job      *)
(* queue and checking its health, no worker running                        *)
(* ---------------------------------------------------------------------- *)
NextOps ==
    \/ LifespanStart
    \/ InitDbDone
    \/ LifespanYield
    \/ \E p \in Procs : CreatePoolDone(p)
    \/ \E p \in Procs : SleepDone(p)
    \/ \E p \in Reqs : StartEnqueue(p)
    \/ \E p \in Reqs, j \in JobIds : StartRequest(p, "status", j)
    \/ \E p \in Reqs, j \in JobIds : StartRequest(p, "result", j)
    \/ \E p \in Reqs : StartRequest(p, "health_redis", 0)
    \/ \E p \in Reqs : EnqueueCommit(p)
    \/ \E p \in Reqs : EnqueueDone(p)
    \/ \E p \in Reqs : JobLookupDone(p)
    \/ \E p \in Reqs : PingDone(p)
    \/ BrokerChange

SpecOps == InitJobs /\ [][NextOps]_vars

(* ---------------------------------------------------------------------- *)
(* Specification: the application started and its redis health check,      *)
(* under the scheduling of the event loop: a task that can take its next   *)
(* step takes it, and health checks keep arriving for as long as the       *)
(* application runs                                                        *)
(* ---------------------------------------------------------------------- *)
\* GET /health/redis arrives at task p: check_redis_health begins with
\* pool = await JobQueue.get_pool().  The server takes requests for as long
\* as it runs, so their number is not bounded here.
StartHealthRedis(p) ==
    /\ lpc = "running"
    /\ pc[p] \in {"idle", "done", "raised"}
    /\ op' = [op EXCEPT ![p] = "health_redis"]
    /\ arg' = [arg EXCEPT ![p] = 0]
    /\ out' = [out EXCEPT ![p] = "none"]
    /\ get_pool(p)
    /\ UNCHANGED <<histVars, valVars, jobs, nextJob, envVars, poolVars, calls,
                   lifeVars, dbVars>>

NextRecover ==
    \/ LifespanStart
    \/ InitDbDone
    \/ LifespanYield
    \/ \E p \in Procs : CreatePoolDone(p)
    \/ \E p \in Procs : SleepDone(p)
    \/ \E p \in Reqs : StartHealthRedis(p)
    \/ \E p \in Reqs : PingDone(p)
    \/ BrokerChange

FairRecover ==
    /\ WF_vars(LifespanStart \/ InitDbDone \/ LifespanYield)
    /\ \A p \in Procs : WF_vars(CreatePoolDone(p))
    /\ \A p \in Procs : WF_vars(SleepDone(p))
    /\ \A p \in Reqs : WF_vars(PingDone(p))
    /\ \A p \in Reqs : WF_vars(StartHealthRedis(p))

SpecRecover == InitJobs /\ [][NextRecover]_vars /\ FairRecover

(* ====================================================================== *)
(* Properties                                                              *)
(* ====================================================================== *)
InFlight == {"creating", "sleeping"}

\* The failure classes of the design: a transient failure is expected to
\* resolve itself; bad credentials and a malformed configuration are not.
TransientErrors == {"ConnectionError", "TimeoutError", "OSError"}
NonTransientErrors == {"AuthenticationError", "ValueError"}

\* Callers whose get_pool found the pool cold and whose first create_pool
\* attempt was accepted.
ColdAccepted ==
    {p \in Procs : cold[p] /\ res[p] # None /\ attempt[p] = 1 /\ fails[p] = 0}

\* C1: callers of get_pool that meet on a cold pool, the broker accepting the
\* first connection attempt, make one create_pool attempt in total and all
\* return the same handle.
C1_OneAttemptSharedHandle ==
    \A p, q \in ColdAccepted :
        p # q => /\ res[p] = res[q]
                 /\ tries[p] + tries[q] = 1

\* C2: at most one connection-creation sequence for the queue backend is in
\* flight at any time.
C2_OneCreationInFlight ==
    Cardinality({p \in Procs : pc[p] \in InFlight}) <= 1

\* C3: a get_pool call all of whose attempts fail with a transient error
\* makes exactly MaxAttempts attempts and raises ConnectionExhausted.
C3_RaisesConnectionExhausted ==
    \A p \in Procs :
        (pc[p] = "raised" /\ err[p] \in TransientErrors)
            => tries[p] = MaxAttempts /\ err[p] = "ConnectionExhausted"

\* C4: a single get_pool call on a cold pool that meets k < MaxAttempts failed
\* attempts and then an accepted one makes exactly k+1 attempts, returns an
\* open handle and leaves it cached in _pool.
C4_SucceedsAfterKFailures ==
    \A p \in Procs :
        (pc[p] = "ret" /\ cold[p] /\ solo[p])
            => /\ fails[p] < MaxAttempts
               /\ tries[p] = fails[p] + 1
               /\ res[p] # None
               /\ res[p] \in open
               /\ pool = res[p]

C4_Witness ==
    \E p \in Procs : /\ pc[p] = "ret" /\ cold[p] /\ solo[p]
                     /\ fails[p] = MaxAttempts - 1
                     /\ tries[p] = MaxAttempts
                     /\ pool = res[p]

\* C5: exhaustion does not poison the pool.  The attempt that exhausts a call
\* caches nothing; when no other caller was about, the call leaves no handle
\* cached and no creation in flight; every later call starts at attempt 1
\* with nothing waited and nothing failed, and its create_pool attempt
\* returns a cached handle when the broker accepts it.
C5_ExhaustionDoesNotPoison ==
    /\ [][\A p \in Procs :
            /\ (pc[p] = "creating" /\ pc'[p] = "raised") => pool' = pool
            /\ (pc[p] = "creating" /\ pc'[p] = "raised" /\ solo[p])
                 => /\ pool' = None
                    /\ closing' = None
                    /\ \A q \in Procs : pc'[q] \notin InFlight
            /\ (pc[p] \notin (InFlight \cup {"ret"}) /\ pc'[p] \in {"creating", "ret"})
                 => /\ attempt'[p] = 1
                    /\ slept'[p] = 0
                    /\ fails'[p] = 0
                    /\ tries'[p] = IF pool = None THEN 1 ELSE 0
            /\ (pc[p] = "creating" /\ pc'[p] # "creating" /\ broker = "up")
                 => pc'[p] = "ret" /\ res'[p] # None /\ pool' = res'[p]]_vars

\* A caller exhausted its budget and a later call, the broker reachable by
\* then, returned a handle on its first attempt.
C5_Witness ==
    \E p, q \in Procs :
        /\ p # q
        /\ pc[p] = "raised" /\ tries[p] = MaxAttempts
        /\ envChanges = 1
        /\ pc[q] = "ret" /\ cold[q] /\ attempt[q] = 1 /\ tries[q] = 1
        /\ res[q] # None /\ pool = res[q]

\* C6: when the first connection attempt of get_pool fails with a
\* non-transient error, or the first attempt of init_db does (rejected
\* credentials), exactly one attempt is made, no backoff wait occurs and the
\* error reaches the caller.
C6_NonTransientNotRetried ==
    [][/\ \A p \in Procs :
            (pc[p] = "creating" /\ pc'[p] # "creating" /\ attempt[p] = 1
               /\ broker \in NonTransientErrors)
            => /\ pc'[p] = "raised"
               /\ err'[p] = broker
               /\ slept'[p] = 0
       /\ (lpc = "init_db" /\ lpc' # "init_db" /\ dbAttempt = 1
             /\ dbm = "InvalidPasswordError")
            => /\ lpc' # "db_sleep"
               /\ dbErr' = dbm
               /\ dbSlept' = 0]_vars

\* C7: once shutdown has completed, close_db() has been invoked and no open
\* queue handle remains.
C7_ShutdownDisposesBoth ==
    lpc = "done" => dbClosed /\ pool = None /\ open = {}

\* C8: startup attempts both initialisations whatever the first one's
\* outcome, never aborts, and starts serving with each flag equal to the
\* outcome of its own subsystem's initialisation.
C8_IndependentBootstrap ==
    /\ [](lpc # "aborted")
    /\ [](lpc = "get_pool" => dbTries >= 1 /\ attempt[Lifespan] >= 1)
    /\ [][(lpc = "get_pool" /\ lpc' # "get_pool")
            => /\ lpc' = "running"
               /\ db_initialized' = (dbErr = "none")
               /\ queue_initialized' = (err[Lifespan] = "none")
               /\ queue_initialized' = (res[Lifespan] # None)]_vars

\* The scenario of the design: the database failed, the queue came up.
C8_Witness ==
    lpc = "running" /\ ~db_initialized /\ queue_initialized /\ pool # None

StatusValues(st) ==
    CASE st = "none"        -> {"None", "not_found"}
      [] st = "queued"      -> {"queued"}
      [] st = "in_progress" -> {"in_progress"}
      [] OTHER              -> {"complete", "failed"}

\* C10: a get_job_status call returns what the broker holds for the
\* identifier at the moment of the call; for an identifier the broker has no
\* record of that is the not-found value, and no error is raised.
C10_StatusReadsThrough ==
    [][\A p \in Reqs :
         (op[p] = "status" /\ pc[p] = "ret" /\ pc'[p] = "done"
            /\ Reachable(p))
         => /\ err'[p] = "none"
            /\ out'[p] \in StatusValues(jobs[arg[p]])]_vars

\* C11: enqueue_job does not swallow a failure of its get_pool call: when that
\* call raises, enqueue_job ends with that error, returns no job identifier
\* and has submitted nothing to the broker.
C11_EnqueuePropagatesPoolFailure ==
    /\ [](\A p \in Reqs :
            (op[p] = "enqueue" /\ pc[p] = "raised")
                => out[p] = "error" /\ err[p] # "none" /\ arg[p] = 0)
    /\ [][\A p \in Reqs :
            (op[p] = "enqueue" /\ pc[p] = "creating" /\ pc'[p] = "raised")
                => /\ out'[p] = "error"
                   /\ err'[p] = broker
                   /\ arg'[p] = 0
                   /\ jobs' = jobs
                   /\ nextJob' = nextJob]_vars

\* An enqueue_job whose get_pool used up its attempts on a transient error.
C11_Witness ==
    \E p \in Reqs : /\ op[p] = "enqueue" /\ pc[p] = "raised"
                    /\ tries[p] = MaxAttempts
                    /\ err[p] \in TransientErrors
                    /\ out[p] = "error"
                    /\ nextJob = 0

\* The application serves requests with the queue not initialised at startup.
Degraded == lpc = "running" /\ ~queue_initialized

\* C12: lazy recovery.  In degraded mode an operation that touches the queue
\* and finds no cached handle starts a connection sequence at attempt 1; the
\* attempt the broker accepts returns a cached open handle; the operation's
\* round trip on it, the broker reachable, does not fail; and a connection
\* attempt starts only inside a call: at startup, when a request begins, or
\* as the retry of an attempt of the same call.
C12_LazyRecovery ==
    [][/\ \A p \in Reqs :
            /\ (Degraded /\ pool = None /\ calls' = calls + 1
                   /\ pc[p] \notin InFlight /\ pc'[p] \in InFlight)
                 => /\ pc'[p] = "creating"
                    /\ attempt'[p] = 1
                    /\ tries'[p] = 1
                    /\ slept'[p] = 0
            /\ (pc[p] = "creating" /\ pc'[p] # "creating" /\ broker = "up")
                 => /\ pc'[p] = "ret"
                    /\ res'[p] \in open'
                    /\ pool' = res'[p]
            /\ (Degraded /\ cold[p]
                   /\ pc[p] \in {"ret", "committed"} /\ pc'[p] = "done"
                   /\ broker = "up" /\ res[p] \in open)
                 => out'[p] \notin {"error", "unhealthy"}
       /\ \A p \in Procs :
            (pc[p] # "creating" /\ pc'[p] = "creating")
                 => \/ pc[p] = "sleeping"
                    \/ calls' = calls + 1 /\ p \in Reqs
                    \/ p = Lifespan /\ lpc = "init_db"
       /\ created' # created => \E p \in Procs : pc[p] = "creating"]_vars

\* 1 * 2^(n-1) clamped to [2, 30], for n = 1..10.
NextDelay == <<2, 2, 4, 8, 16, 30, 30, 30, 30, 30>>

\* C13: for every attempt number n in 1..MaxAttempts the wait before the next
\* retry is 1 * 2^(n-1) clamped to [2, 30]; it never decreases with n, lies
\* within [2, 30], is the same for init_db and get_pool, and is the wait each
\* of them adds when an attempt is retried.
C13_BackoffDelay ==
    /\ [](\A n \in 1..MaxAttempts :
            /\ wait_exponential(n) = NextDelay[n]
            /\ db_wait_exponential(n) = wait_exponential(n)
            /\ wait_exponential(n) >= 2 /\ wait_exponential(n) <= 30
            /\ n > 1 => wait_exponential(n) >= wait_exponential(n - 1))
    /\ [][/\ \A p \in Procs :
              (pc[p] = "creating" /\ pc'[p] = "sleeping")
                  => slept'[p] = slept[p] + NextDelay[attempt[p]]
         /\ (lpc = "init_db" /\ lpc' = "db_sleep")
                  => dbSlept' = dbSlept + NextDelay[dbAttempt]]_vars

\* init_db used up its ten attempts, waiting 2+2+4+8+16+30+30+30+30 = 152
\* seconds, and the startup get_pool has waited as long before attempt 10.
C13_Witness ==
    /\ lpc = "get_pool" /\ dbTries = MaxAttempts /\ dbSlept = 152
    /\ attempt[Lifespan] = MaxAttempts /\ slept[Lifespan] = 152

\* The step is task p calling close_pool.
ClosePoolCalled(p) ==
    /\ calls' = calls + 1
    /\ op'[p] = "close_pool"
    /\ pc[p] \in {"idle", "done", "raised"}
    /\ \A q \in Reqs \ {p} : pc'[q] = pc[q] /\ op'[q] = op[q]

\* C14: close_pool is idempotent.  Called with no handle cached it returns at
\* once, raising nothing and changing nothing of the pool; a call no other
\* close overlaps closes a handle that was still open, once, and leaves
\* _pool None, so that a second call in a row finds nothing to close.
C14_ClosePoolIdempotent ==
    [][\A p \in Reqs :
         /\ (ClosePoolCalled(p) /\ pool = None)
              => /\ pc'[p] = "done"
                 /\ err'[p] = err[p]
                 /\ pool' = None /\ open' = open /\ created' = created
         /\ (ClosePoolCalled(p) /\ pool # None)
              => /\ pc'[p] = "closing" /\ res'[p] = pool
                 /\ pool' = pool /\ open' = open
         /\ (pc[p] = "closing" /\ pc'[p] = "done" /\ solo[p])
              => /\ res[p] \in open
                 /\ open' = open \ {res[p]}
                 /\ pool' = None]_vars

\* Two calls in a row: the first closed the handle, the second found none.
C14_Witness ==
    \E p, q \in Reqs :
        /\ p # q
        /\ op[p] = "close_pool" /\ pc[p] = "done" /\ solo[p]
        /\ res[p] # None /\ res[p] \notin open
        /\ op[q] = "close_pool" /\ pc[q] = "done" /\ res[q] = None
        /\ pool = None /\ open = {} /\ created = 1

\* C15: cancelling one caller that waits inside get_pool while another caller
\* waits too aborts only the cancelled caller's wait: the other callers stay
\* where they were, their connection attempt still in flight with its count
\* and its waits, and the pool and the open handles are untouched; the
\* cancelled caller gets CancelledError and no handle.
C15_CancelAbortsOnlyTheWait ==
    [][\A p \in Reqs :
         (/\ pc[p] \in InFlight
          /\ pc'[p] = "raised" /\ err'[p] = "CancelledError"
          /\ \E q \in Procs \ {p} : pc[q] \in InFlight)
         => /\ \A q \in Procs \ {p} :
                  /\ pc'[q] = pc[q] /\ attempt'[q] = attempt[q]
                  /\ tries'[q] = tries[q] /\ slept'[q] = slept[q]
                  /\ fails'[q] = fails[q]
                  /\ res'[q] = res[q] /\ err'[q] = err[q]
            /\ res'[p] = None
            /\ pool' = pool /\ open' = open /\ created' = created]_vars

\* Two callers waited inside get_pool at once; one was cancelled, the other
\* went on to create the handle, which is cached, and answered healthy.
C15_Witness ==
    \E p, q \in Reqs :
        /\ p # q
        /\ pc[p] = "raised" /\ err[p] = "CancelledError" /\ ~solo[p]
        /\ op[q] = "health_redis" /\ pc[q] = "done" /\ out[q] = "healthy"
        /\ cold[q] /\ ~solo[q] /\ res[q] = pool /\ pool \in open

\* C16: an enqueue_job call that reaches the broker either returns one
\* non-empty identifier for exactly one job stored under it, or raises with
\* no job submitted and no identifier returned; two successful calls never
\* return the same identifier.
C16_EnqueueAllOrNothing ==
    /\ [](\A p, q \in Reqs :
            (p # q /\ op[p] = "enqueue" /\ op[q] = "enqueue"
               /\ out[p] = "id" /\ out[q] = "id")
                => arg[p] # arg[q])
    /\ [][\A p \in Reqs :
            (op[p] = "enqueue" /\ pc[p] \in {"ret", "committed"}
               /\ pc'[p] = "done")
                => \/ /\ out'[p] = "id"
                      /\ pc[p] = "committed"
                      /\ arg'[p] \in JobIds
                      /\ arg'[p] = arg[p]
                   \/ /\ out'[p] = "error"
                      /\ pc[p] = "ret"
                      /\ arg'[p] = 0
                      /\ jobs' = jobs
                      /\ nextJob' = nextJob]_vars

HealthOps == {"health_db", "health_redis"}

\* C17: after a startup in which init_db failed and the queue came up, the
\* database still failing and the broker reachable, /health/db answers
\* unhealthy and /health/redis answers healthy; no health check raises; and
\* a health check changes nothing of the application's state but what its
\* get_pool does: nothing when the queue came up at startup, otherwise it
\* may create and cache a handle.
C17_HealthAfterDegradedStart ==
    /\ [](\A p \in Reqs :
            op[p] \in HealthOps => out[p] \in {"none", "healthy", "unhealthy"})
    /\ [][(lpc = "running")
            => /\ \A p \in Reqs :
                   /\ (pc[p] = "db_probe" /\ pc'[p] = "done"
                          /\ ~db_initialized /\ dbm # "up")
                        => out'[p] = "unhealthy"
                   /\ (op[p] = "health_redis" /\ pc[p] = "ret"
                          /\ pc'[p] = "done"
                          /\ queue_initialized /\ broker = "up")
                        => out'[p] = "healthy"
               /\ UNCHANGED <<lifeVars, dbVars, jobVars, closing>>
               /\ queue_initialized => UNCHANGED <<pool, created, open>>
               /\ pool' # pool
                    => /\ \E p \in Reqs : pc[p] = "creating"
                       /\ pool' = created' /\ created' = created + 1
                       /\ open' = open \cup {pool'}]_vars

\* The scenario of the design: init_db failed, the queue came up; then one
\* request checked the database and another the queue.
C17_Witness ==
    /\ lpc = "running" /\ ~db_initialized /\ queue_initialized
    /\ dbm # "up" /\ broker = "up" /\ created = 1
    /\ \E p, q \in Reqs :
          /\ op[p] = "health_db" /\ pc[p] = "done" /\ out[p] = "unhealthy"
          /\ op[q] = "health_redis" /\ pc[q] = "done" /\ out[q] = "healthy"

\* What C18 requires of the data for it to be returned.
UrlAccepted(src) ==
    /\ src.kind = "dict"
    /\ src.url.kind = "str"
    /\ src.url.text # <<>>
    /\ urlparse(src.url.text).error = "none"
    /\ Len(urlparse(src.url.text).netloc) = 1
    /\ urlparse(src.url.text).netloc[1]
         \in {"youtube.com", "www.youtube.com", "youtu.be", "m.youtube.com"}

FontSizeAccepted(fo) ==
    \/ fo.kind = "absent"
    \/ fo.kind = "dict" /\ fo.font_size.kind = "absent"
    \/ /\ fo.kind = "dict" /\ fo.font_size.kind = "int"
       /\ fo.font_size.val >= 10 /\ fo.font_size.val <= 100

\* C18: validate_task_input returns its input unchanged if and only if the
\* URL is present, non-empty and has one of the four YouTube hosts as its
\* network location and the font size (24 when absent) is an integer in
\* 10..100; on every other input it raises HTTPException 400.
C18_ValidateTaskInput ==
    verdict.status # "none"
        => /\ verdict.status \in {"returned", "HTTP400"}
           /\ verdict.status = "returned"
                <=> (UrlAccepted(data.source)
                       /\ FontSizeAccepted(data.font_options))
           /\ verdict.status = "returned" => verdict.value = data

\* The engine is opening or using a connection: an init_db attempt or a
\* /health/db probe is under way.
EngineConnecting ==
    lpc = "init_db" \/ \E p \in Reqs : pc[p] = "db_probe"

\* C19: every connection the engine opens is made with connect_args that
\* hold both ssl = "require" and statement_cache_size = 0.
C19_EngineConnectArgs ==
    EngineConnecting
        => /\ "ssl" \in DOMAIN connect_args
           /\ connect_args["ssl"] = "require"
           /\ "statement_cache_size" \in DOMAIN connect_args
           /\ connect_args["statement_cache_size"] = 0

\* The handles create_pool can have returned in one run: cold callers are
\* the lifespan and the requests, each broker change may let them connect
\* anew.
HandleIds == 1..((NumReq + 1) * (MaxEnvChanges + 1))

\* A health check found handle h unusable: its ping on h failed.
PingFailedOn(h) ==
    \E p \in Reqs : /\ op[p] = "health_redis" /\ pc[p] = "done"
                    /\ out[p] = "unhealthy" /\ res[p] = h

\* C20: the manager does not hold a poisoned handle forever.  Once a ping on
\* the cached handle h has failed and the broker is reachable again, health
\* checks going on, creation is eventually triggered again: the manager
\* caches a new open handle in place of h.
C20_PoisonedHandleReplaced ==
    \A h \in HandleIds :
        (/\ lpc = "running" /\ pool = h /\ PingFailedOn(h) /\ broker = "up")
            ~> (pool \notin {None, h} /\ pool \in open)

\* Every close_pool call has returned and no call of get_pool or close_pool
\* has started since the last close_pool call did.
ClosedAndQuiet ==
    /\ lastClose # 0
    /\ calls = lastClose
    /\ \A p \in Reqs : pc[p] # "closing"

\* C21: under any interleaving of get_pool and close_pool calls, get_pool
\* never returns a handle whose close has begun or completed; and once
\* close_pool has returned, no get_pool having started afterwards, no open
\* handle remains cached or orphaned, a handle whose creation was in flight
\* when close_pool ran included.
C21_GetPoolAndClosePoolInterleave ==
    /\ [][\A q \in Reqs :
            (op'[q] = "health_redis" /\ pc[q] # "ret" /\ pc'[q] = "ret")
                => /\ res'[q] \in open'
                   /\ \A p \in Reqs :
                         ~(pc'[p] = "closing" /\ res'[p] = res'[q])]_vars
    /\ [](ClosedAndQuiet => pool = None /\ open = {})

====
